---- MODULE Spec2Model ----
(***************************************************************************)
(* Model of lockbox's Secret::create (src/src/secret.rs).                  *)
(*                                                                         *)
(* One call of Secret::create is one step: it draws the id, the key and    *)
(* the AEAD nonce from the random source, reads the clock, and leaves its  *)
(* outcome (Ok record / Err / panic) in `result`.  The arguments of the    *)
(* call are kept in `call` so that properties can relate the outcome to    *)
(* the inputs.                                                             *)
(*                                                                         *)
(* Strings and byte buffers are sequences of byte values 0..255.           *)
(* i64 quantities (seconds, reads, timestamps) are two-limb numbers        *)
(* [hi, lo] standing for hi * 10^9 + lo, 0 <= lo < 10^9, because the       *)
(* inputs that matter reach far beyond 32 bits.                            *)
(***************************************************************************)
EXTENDS Integers, Sequences, FiniteSets, TLC

VARIABLES now, call, result

vars == <<now, call, result>>

----------------------------------------------------------------------------
(* Bounds of the model *)

MaxPayloadLen == 2
MaxHeaders == 2
MaxTicks == 1

----------------------------------------------------------------------------
(* Option<T> *)

None == [some |-> FALSE]
Some(x) == [some |-> TRUE, v |-> x]

----------------------------------------------------------------------------
(* i64 arithmetic on two limbs *)

Base == 1000 * 1000 * 1000

I64(n) == [hi |-> n \div Base, lo |-> n % Base]

Big(h, l) == [hi |-> h, lo |-> l]

Lt(a, b) == a.hi < b.hi \/ (a.hi = b.hi /\ a.lo < b.lo)

Le(a, b) == a = b \/ Lt(a, b)

Gt(a, b) == Lt(b, a)

Add(a, b) ==
    LET s == a.lo + b.lo
    IN  [hi |-> a.hi + b.hi + (s \div Base), lo |-> s % Base]

Mul1000(a) ==
    [hi |-> a.hi * 1000 + (a.lo \div 1000000), lo |-> (a.lo % 1000000) * 1000]

----------------------------------------------------------------------------
(* Literals of the program *)

MAX_EXPIRE_SECONDS == 2592000
DEFAULT_EXPIRE_SECONDS == 3600
KEY_LEN == 32
XCHACHA_NONCESIZE == 24
POLY1305_OUTSIZE == 16

STR_error == <<101, 114, 114, 111, 114>>
STR_none == <<110, 111, 110, 101>>
MIME_bmp == <<105, 109, 97, 103, 101, 47, 98, 109, 112>>

CONTENT_TYPE == "content-type"
USER_AGENT == "user-agent"
X_FORWARDED_FOR == "x-forwarded-for"

----------------------------------------------------------------------------
(* Inputs *)

PayloadBytes == {66, 77}

Payloads == UNION {[1..n -> PayloadBytes] : n \in 0..MaxPayloadLen}

ExpireReadsInputs == {None, Some(I64(-2)), Some(I64(-1)), Some(I64(0)), Some(I64(5))}

ExpireSecondsInputs ==
    {None, Some(Big(-10000000, 0)), Some(I64(-1)),
     Some(I64(0)), Some(I64(1)), Some(I64(MAX_EXPIRE_SECONDS + 1)),
     Some(Big(9, 999999999))}

PwdInputs == {None, Some(<<>>), Some(<<112, 119>>)}

HeaderNames == {CONTENT_TYPE, USER_AGENT, X_FORWARDED_FOR}

\* empty, "t", U+00E9 in UTF-8, and a lone 0xFF
HeaderValues == {<<>>, <<116>>, <<195, 169>>, <<255>>}

HeaderMaps ==
    UNION {[D -> HeaderValues] :
              D \in {S \in SUBSET HeaderNames : Cardinality(S) <= MaxHeaders}}

Ids == {"uuid-a"}

KeyChars == {97}

Keys == {[i \in 1..KEY_LEN |-> c] : c \in KeyChars}

Nonces == {[i \in 1..XCHACHA_NONCESIZE |-> 7]}

----------------------------------------------------------------------------
(* Library calls made by Secret::create *)

\* HeaderMap::get
Get(headers, name) ==
    IF name \in DOMAIN headers THEN Some(headers[name]) ELSE None

\* HeaderValue::to_str: Ok only if every byte is visible ASCII
IsVisibleAscii(b) == (b >= 32 /\ b < 127) \/ b = 9

ToStr(h) ==
    IF \A i \in 1..Len(h) : IsVisibleAscii(h[i]) THEN Some(h) ELSE None

UnwrapOr(o, d) == IF o.some THEN o.v ELSE d

\* infer::get, restricted to the matchers the payload alphabet can trigger
Infer(value) ==
    IF Len(value) > 1 /\ value[1] = 66 /\ value[2] = 77
    THEN Some(MIME_bmp)
    ELSE None

\* orion::aead::SecretKey::from_slice succeeds on a non-empty slice
SecretKeyFromSlice(key) == Len(key) >= 1

\* orion::aead::seal rejects an empty plaintext and a key that is not 32 bytes
SealFails(key, value) == Len(value) = 0 \/ Len(key) # KEY_LEN

\* Layout of orion's sealed box: nonce, encrypted body, Poly1305 tag.  The
\* byte values of body and tag stand in for XChaCha20-Poly1305.
Seal(key, nonce, value) ==
    LET body == [i \in 1..Len(value) |->
                    (value[i] + key[((i - 1) % Len(key)) + 1]
                              + nonce[((i - 1) % Len(nonce)) + 1]) % 256]
        tag == [i \in 1..POLY1305_OUTSIZE |->
                    (key[i] + Len(value) + i) % 256]
    IN  nonce \o body \o tag

\* chrono::Duration::seconds panics outside +-(i64::MAX / 1000) seconds
DURATION_MAX_SECS == Big(9223372, 36854775)
DURATION_MIN_SECS == Big(-9223373, 963145225)

DurationSecondsPanics(s) == Lt(s, DURATION_MIN_SECS) \/ Gt(s, DURATION_MAX_SECS)

\* chrono::DateTime<Utc> + Duration panics outside DateTime::MIN_UTC..MAX_UTC
\* (-262143-01-01T00:00:00Z .. +262142-12-31T23:59:59Z)
DATETIME_MIN_SECS == Big(-8335, 398684800)
DATETIME_MAX_SECS == Big(8210, 266876799)

DateTimeAddPanics(t, s) ==
    LET r == Add(t.secs, s)
    IN  Lt(r, DATETIME_MIN_SECS) \/ Gt(r, DATETIME_MAX_SECS)

\* bson::DateTime::from(chrono::DateTime): milliseconds since the epoch
TimestampMillis(t) == Add(Mul1000(t.secs), I64(t.nanos \div 1000000))

\* DefaultHasher over the password; the digest value is a stand-in for
\* SipHash, reinterpreted as i64
RECURSIVE Digest(_, _)
Digest(p, h) ==
    IF p = <<>> THEN h ELSE Digest(Tail(p), (h * 31 + Head(p) + 1) % 65521)

----------------------------------------------------------------------------
(* Secret::create, step by step *)

\* variant: the Content-Type header takes precedence over sniffing
ContentType_HeaderFirst(value, headers) ==
    LET t == Infer(value)
        h == Get(headers, CONTENT_TYPE)
    IN  IF h.some THEN UnwrapOr(ToStr(h.v), STR_error)
        ELSE IF t.some THEN t.v
        ELSE STR_none

ContentType(value, headers) ==
    LET t == Infer(value)
        h == Get(headers, CONTENT_TYPE)
    IN  IF t.some THEN t.v
        ELSE IF h.some THEN UnwrapOr(ToStr(h.v), STR_error)
        ELSE STR_none

\* variant: records the size of the plaintext
MetaBytes_Plaintext(ciphertext) ==
    Len(ciphertext) - (XCHACHA_NONCESIZE + POLY1305_OUTSIZE)

MetaBytes(ciphertext) == Len(ciphertext)

\* variant: the burn-after-reading default is zero reads
ExpireReads_ZeroDefault(expire_reads, expire_seconds) ==
    IF expire_reads.some THEN expire_reads.v
    ELSE IF ~expire_seconds.some THEN I64(0)
    ELSE I64(-1)

\* variant: a given expire_seconds overrides a given expire_reads
ExpireReads_SecondsFirst(expire_reads, expire_seconds) ==
    IF expire_seconds.some THEN I64(-1)
    ELSE IF expire_reads.some THEN expire_reads.v
    ELSE I64(1)

ExpireReads(expire_reads, expire_seconds) ==
    IF expire_reads.some THEN expire_reads.v
    ELSE IF ~expire_seconds.some THEN I64(1)
    ELSE I64(-1)

\* variant: no upper bound on expire_seconds
ExpireSeconds_NoClamp(expire_seconds) ==
    IF expire_seconds.some THEN expire_seconds.v ELSE I64(DEFAULT_EXPIRE_SECONDS)

ExpireSeconds(expire_seconds) ==
    IF expire_seconds.some
    THEN IF Gt(expire_seconds.v, I64(MAX_EXPIRE_SECONDS))
         THEN I64(MAX_EXPIRE_SECONDS)
         ELSE expire_seconds.v
    ELSE I64(DEFAULT_EXPIRE_SECONDS)

ExpiresAtPanics(t, seconds) ==
    DurationSecondsPanics(seconds) \/ DateTimeAddPanics(t, seconds)

ExpiresAt(t, seconds) == [secs |-> Add(t.secs, seconds), nanos |-> t.nanos]

\* variant: the expiry is computed from expire_seconds before it is clamped
Lifecycle_RawExpiry(expire_reads, expire_seconds, t) ==
    LET reads == ExpireReads(expire_reads, expire_seconds)
        seconds == ExpireSeconds(expire_seconds)
        raw == IF expire_seconds.some THEN expire_seconds.v ELSE seconds
        expires_at == ExpiresAt(t, raw)
    IN  [max |-> [reads |-> reads,
                  seconds |-> seconds,
                  expires |-> TimestampMillis(expires_at)],
         current |-> [reads |-> I64(0)]]

Lifecycle(expire_reads, expire_seconds, t) ==
    LET reads == ExpireReads(expire_reads, expire_seconds)
        seconds == ExpireSeconds(expire_seconds)
        expires_at == ExpiresAt(t, seconds)
    IN  [max |-> [reads |-> reads,
                  seconds |-> seconds,
                  expires |-> TimestampMillis(expires_at)],
         current |-> [reads |-> I64(0)]]

\* variant: an empty password counts as no password
HashPwd_EmptyIsNone(pwd) ==
    IF pwd.some /\ pwd.v # <<>> THEN Some(Digest(pwd.v, 7)) ELSE None

HashPwd(pwd) == IF pwd.some THEN Some(Digest(pwd.v, 7)) ELSE None

\* variant: an absent header is recorded as "error"
HeaderField_AbsentIsError(headers, name) ==
    LET h == Get(headers, name)
    IN  IF h.some THEN Some(UnwrapOr(ToStr(h.v), STR_error)) ELSE Some(STR_error)

HeaderField(headers, name) ==
    LET h == Get(headers, name)
    IN  IF h.some THEN Some(UnwrapOr(ToStr(h.v), STR_error)) ELSE None

\* RestError: From<orion::errors::UnknownCryptoError>
RestErrorFrom == "CryptoError"

CreateResult(value, expire_reads, expire_seconds, pwd, headers, id, key, nonce, t) ==
    IF ~SecretKeyFromSlice(key) THEN [tag |-> "Err", err |-> RestErrorFrom]
    ELSE IF SealFails(key, value) THEN [tag |-> "Err", err |-> "CryptoError"]
    ELSE
      LET content_type == ContentType(value, headers)
          ciphertext == Seal(key, nonce, value)
          bytes == MetaBytes(ciphertext)
      IN  IF ExpiresAtPanics(t, ExpireSeconds(expire_seconds))
          THEN [tag |-> "Panic"]
          ELSE
            [tag |-> "Ok",
             secret |->
               [id |-> id,
                active |-> TRUE,
                meta |-> [content_type |-> content_type,
                          bytes |-> bytes,
                          x_forwarded_for |-> HeaderField(headers, X_FORWARDED_FOR),
                          user_agent |-> HeaderField(headers, USER_AGENT)],
                lifecycle |-> Lifecycle(expire_reads, expire_seconds, t),
                facts |-> [pwd |-> HashPwd(pwd)]],
             key |-> key,
             value |-> ciphertext]

----------------------------------------------------------------------------
(* State machine *)

TickNanos == 500 * 1000

NanosPerSec == Base

\* 2026-11-02T00:00:00Z
StartSecs == Big(1, 793577600)

NoCall == [made |-> FALSE]

Init ==
    /\ now = [secs |-> StartSecs, nanos |-> 0, ticks |-> 0]
    /\ call = NoCall
    /\ result = [tag |-> "None"]

\* the wall clock advances between invocations; create itself never suspends
Tick ==
    /\ ~call.made
    /\ now.ticks < MaxTicks
    /\ LET n == now.nanos + TickNanos
       IN  now' = [secs |-> Add(now.secs, I64(n \div NanosPerSec)),
                   nanos |-> n % NanosPerSec,
                   ticks |-> now.ticks + 1]
    /\ UNCHANGED <<call, result>>

\* one invocation of Secret::create; the caller holds no earlier outcome
Create ==
    /\ ~call.made
    /\ \E value \in Payloads, expire_reads \in ExpireReadsInputs,
       expire_seconds \in ExpireSecondsInputs, pwd \in PwdInputs,
       headers \in HeaderMaps, id \in Ids, key \in Keys, nonce \in Nonces :
         /\ call' = [made |-> TRUE, value |-> value, expire_reads |-> expire_reads,
                     expire_seconds |-> expire_seconds, pwd |-> pwd,
                     headers |-> headers, key |-> key, at |-> now]
         /\ result' = CreateResult(value, expire_reads, expire_seconds, pwd,
                                   headers, id, key, nonce, now)
         /\ UNCHANGED now

\* the caller takes the outcome; the next invocation is independent of it
Return ==
    /\ call.made
    /\ call' = NoCall
    /\ result' = [tag |-> "None"]
    /\ UNCHANGED now

Next == Create \/ Return \/ Tick

Spec == Init /\ [][Next]_vars

----------------------------------------------------------------------------
(* Vocabulary of the properties *)

Ok == result.tag = "Ok"

MaxOf == result.secret.lifecycle.max

MetaOf == result.secret.meta

Positive(x) == Gt(x, I64(0))

PositiveOrUnlimited(x) == Positive(x) \/ x = I64(-1)

InTtlRange(x) == Le(I64(1), x) /\ Le(x, I64(MAX_EXPIRE_SECONDS))

Cont(b) == b >= 128 /\ b <= 191

\* UTF-8 well-formedness as checked by core::str::from_utf8
RECURSIVE IsUtf8(_)
IsUtf8(s) ==
    LET n == Len(s)
        Rest(k) == SubSeq(s, k + 1, n)
    IN  IF n = 0 THEN TRUE
        ELSE IF s[1] < 128 THEN IsUtf8(Rest(1))
        ELSE IF s[1] >= 194 /\ s[1] <= 223
             THEN n >= 2 /\ Cont(s[2]) /\ IsUtf8(Rest(2))
        ELSE IF s[1] >= 224 /\ s[1] <= 239
             THEN /\ n >= 3
                  /\ Cont(s[2])
                  /\ Cont(s[3])
                  /\ (s[1] = 224 => s[2] >= 160)
                  /\ (s[1] = 237 => s[2] <= 159)
                  /\ IsUtf8(Rest(3))
        ELSE IF s[1] >= 240 /\ s[1] <= 244
             THEN /\ n >= 4
                  /\ Cont(s[2])
                  /\ Cont(s[3])
                  /\ Cont(s[4])
                  /\ (s[1] = 240 => s[2] >= 144)
                  /\ (s[1] = 244 => s[2] <= 143)
                  /\ IsUtf8(Rest(4))
        ELSE FALSE

VisibleAsciiOnly(s) == \A i \in 1..Len(s) : s[i] \in (32..126) \cup {9}

Sniffed == Infer(call.value).some

----------------------------------------------------------------------------
(* C1: lifecycle.max.seconds *)

\* C1 as stated: after every successful create, whatever expire_seconds was
\* given, lifecycle.max.seconds lies in [1, 2592000].
C1_SecondsInRange == Ok => InTtlRange(MaxOf.seconds)

\* C1 amended: after every successful create lifecycle.max.seconds is at most
\* 2592000; it lies in [1, 2592000] whenever expire_seconds is absent or at
\* least 1, and a zero or negative expire_seconds is stored unchanged.
C1_SecondsAtMostMax ==
    Ok =>
      /\ Le(MaxOf.seconds, I64(MAX_EXPIRE_SECONDS))
      /\ (~call.expire_seconds.some \/ Le(I64(1), call.expire_seconds.v))
            => InTtlRange(MaxOf.seconds)
      /\ (call.expire_seconds.some /\ Lt(call.expire_seconds.v, I64(1)))
            => MaxOf.seconds = call.expire_seconds.v

C1_Witness ==
    /\ Ok
    /\ call.expire_seconds = Some(Big(9, 999999999))
    /\ MaxOf.seconds = I64(MAX_EXPIRE_SECONDS)

----------------------------------------------------------------------------
(* C2: lifecycle.max.reads *)

\* C2 as stated: after every successful create, whatever expire_reads and
\* expire_seconds were given, lifecycle.max.reads is positive or exactly -1.
C2_ReadsPositiveOrUnlimited == Ok => PositiveOrUnlimited(MaxOf.reads)

\* C2 amended: after every successful create lifecycle.max.reads is the given
\* expire_reads unchanged; it is positive or exactly -1 whenever expire_reads
\* is absent or is itself positive or -1.
C2_ReadsAsGivenOrDefault ==
    Ok =>
      /\ call.expire_reads.some => MaxOf.reads = call.expire_reads.v
      /\ (~call.expire_reads.some \/ PositiveOrUnlimited(call.expire_reads.v))
            => PositiveOrUnlimited(MaxOf.reads)

C2_Witness ==
    /\ Ok
    /\ ~call.expire_reads.some
    /\ call.expire_seconds.some
    /\ MaxOf.reads = I64(-1)

----------------------------------------------------------------------------
(* C3: create fails only on a cryptographic failure *)

CryptoFails == ~SecretKeyFromSlice(call.key) \/ SealFails(call.key, call.value)

\* C3: a call of create returns an error exactly when key construction or
\* sealing fails, returns a successful result for every other input, and an
\* error is a crypto error carrying no record, key or ciphertext.
C3_FailsOnlyOnCrypto ==
    call.made =>
      /\ CryptoFails => result = [tag |-> "Err", err |-> "CryptoError"]
      /\ ~CryptoFails => Ok

----------------------------------------------------------------------------
(* C4: meta.bytes *)

\* C4: after every successful create meta.bytes equals the length of the
\* returned ciphertext, and differs from the length of the raw payload.
C4_BytesIsCiphertextLen ==
    Ok =>
      /\ MetaOf.bytes = Len(result.value)
      /\ MetaOf.bytes # Len(call.value)

C4_Witness ==
    /\ Ok
    /\ Len(call.value) = 2
    /\ MetaOf.bytes = 42

----------------------------------------------------------------------------
(* C5: the normalized expiration policy *)

\* C5: after every successful create, max.reads is expire_reads when given,
\* 1 when both inputs are absent and -1 when only expire_seconds is given;
\* max.seconds is 2592000 when expire_seconds is given and greater than
\* 2592000, expire_seconds when given and at most 2592000, 3600 when absent.
C5_PolicyFunction ==
    Ok =>
      /\ call.expire_reads.some => MaxOf.reads = call.expire_reads.v
      /\ (~call.expire_reads.some /\ ~call.expire_seconds.some)
            => MaxOf.reads = I64(1)
      /\ (~call.expire_reads.some /\ call.expire_seconds.some)
            => MaxOf.reads = I64(-1)
      /\ (call.expire_seconds.some /\ Gt(call.expire_seconds.v, I64(2592000)))
            => MaxOf.seconds = I64(2592000)
      /\ (call.expire_seconds.some /\ Le(call.expire_seconds.v, I64(2592000)))
            => MaxOf.seconds = call.expire_seconds.v
      /\ ~call.expire_seconds.some => MaxOf.seconds = I64(3600)

C5_Witness ==
    /\ Ok
    /\ call.expire_reads = Some(I64(5))
    /\ call.expire_seconds = Some(I64(MAX_EXPIRE_SECONDS + 1))
    /\ MaxOf.reads = I64(5)
    /\ MaxOf.seconds = I64(MAX_EXPIRE_SECONDS)

----------------------------------------------------------------------------
(* C6: facts.pwd *)

\* C6: after every successful create facts.pwd is Some if and only if a
\* password argument was supplied.
C6_PwdIffSupplied == Ok => (result.secret.facts.pwd.some <=> call.pwd.some)

C6_Witness ==
    /\ Ok
    /\ call.pwd = Some(<<>>)
    /\ result.secret.facts.pwd.some

----------------------------------------------------------------------------
(* C7: meta.content_type is never empty *)

\* C7: after every successful create meta.content_type is not the empty
\* string, for any payload and any header map.
C7_ContentTypeNonEmpty == Ok => MetaOf.content_type # <<>>

----------------------------------------------------------------------------
(* C8: precedence of content classification *)

\* C8 as stated: a sniffed type wins over any Content-Type header; otherwise
\* a header that is valid UTF-8 is used verbatim, a header that is not is
\* recorded as "error", and an absent header as "none".
C8_PrecedenceUtf8 ==
    Ok =>
      LET h == Get(call.headers, CONTENT_TYPE)
      IN  /\ Sniffed => MetaOf.content_type = MIME_bmp
          /\ (~Sniffed /\ h.some /\ IsUtf8(h.v)) => MetaOf.content_type = h.v
          /\ (~Sniffed /\ h.some /\ ~IsUtf8(h.v)) => MetaOf.content_type = STR_error
          /\ (~Sniffed /\ ~h.some) => MetaOf.content_type = STR_none

\* C8 amended: a sniffed type wins over any Content-Type header; otherwise a
\* header made only of visible ASCII bytes (0x20..0x7E, tab) is used verbatim,
\* a header with any other byte (valid non-ASCII UTF-8 included) is recorded
\* as "error", and an absent header as "none".
C8_PrecedenceVisibleAscii ==
    Ok =>
      LET h == Get(call.headers, CONTENT_TYPE)
      IN  /\ Sniffed => MetaOf.content_type = MIME_bmp
          /\ (~Sniffed /\ h.some /\ VisibleAsciiOnly(h.v))
                => MetaOf.content_type = h.v
          /\ (~Sniffed /\ h.some /\ ~VisibleAsciiOnly(h.v))
                => MetaOf.content_type = STR_error
          /\ (~Sniffed /\ ~h.some) => MetaOf.content_type = STR_none

C8_Witness ==
    /\ Ok
    /\ Sniffed
    /\ CONTENT_TYPE \in DOMAIN call.headers
    /\ call.headers[CONTENT_TYPE] = <<116>>
    /\ MetaOf.content_type = MIME_bmp

----------------------------------------------------------------------------
(* C9: provenance headers *)

Utf8Capture(name, field) ==
    LET h == Get(call.headers, name)
    IN  /\ (h.some /\ IsUtf8(h.v)) => field = Some(h.v)
        /\ (h.some /\ ~IsUtf8(h.v)) => field = Some(STR_error)
        /\ ~h.some => field = None

AsciiCapture(name, field) ==
    LET h == Get(call.headers, name)
    IN  /\ (h.some /\ VisibleAsciiOnly(h.v)) => field = Some(h.v)
        /\ (h.some /\ ~VisibleAsciiOnly(h.v)) => field = Some(STR_error)
        /\ ~h.some => field = None

\* C9 as stated: x_forwarded_for and user_agent each hold the header verbatim
\* when it is present and valid UTF-8, "error" when it is present and does not
\* decode, and are unset when the header is absent.
C9_ProvenanceUtf8 ==
    Ok =>
      /\ Utf8Capture(X_FORWARDED_FOR, MetaOf.x_forwarded_for)
      /\ Utf8Capture(USER_AGENT, MetaOf.user_agent)

\* C9 amended: x_forwarded_for and user_agent each hold the header verbatim
\* when it is present and made only of visible ASCII bytes (0x20..0x7E, tab),
\* "error" when it is present with any other byte (valid non-ASCII UTF-8
\* included), and are unset when the header is absent.
C9_ProvenanceVisibleAscii ==
    Ok =>
      /\ AsciiCapture(X_FORWARDED_FOR, MetaOf.x_forwarded_for)
      /\ AsciiCapture(USER_AGENT, MetaOf.user_agent)

C9_Witness ==
    /\ Ok
    /\ DOMAIN call.headers = {X_FORWARDED_FOR}
    /\ call.headers[X_FORWARDED_FOR] = <<255>>
    /\ MetaOf.x_forwarded_for = Some(STR_error)
    /\ MetaOf.user_agent = None

----------------------------------------------------------------------------
(* C10: lifecycle.max.expires *)

\* the instant at which create read the clock, in milliseconds
CreatedMillis ==
    Add(Mul1000(call.at.secs), I64(call.at.nanos \div (1000 * 1000)))

\* C10: after every successful create max.expires is the creation time plus
\* the max.seconds stored in the same record (at the millisecond resolution
\* of the stored timestamp), hence at most 2592000 seconds after creation.
C10_ExpiresIsCreatedPlusSeconds ==
    Ok =>
      /\ MaxOf.expires = Add(CreatedMillis, Mul1000(MaxOf.seconds))
      /\ Le(MaxOf.expires, Add(CreatedMillis, Mul1000(I64(MAX_EXPIRE_SECONDS))))

C10_Witness ==
    /\ Ok
    /\ call.expire_seconds = Some(Big(9, 999999999))
    /\ call.at.nanos > 0
    /\ MaxOf.expires = Add(CreatedMillis, Big(2, 592000000))

====
